---- MODULE Spec2Model ----
(***************************************************************************)
(* A model of spa/utils/string.h (PipeWire's Simple Plugin API): the       *)
(* absent-safe string comparison, the six strict numeric parsers and the   *)
(* bounded formatter, together with the parts of the C library they call   *)
(* (strncmp, strtol, strtoll, strtoull, strtof, strtod, vsnprintf), which  *)
(* are modelled from ISO C 7.22.1 / 7.21.6 / 7.24.4.                       *)
(*                                                                         *)
(* C strings are TLA+ strings; a character is a string of length one and   *)
(* the terminating nul, which is not part of a TLA+ string, is read as     *)
(* Nul.  A possibly-absent string (a const char * that may be NULL) is     *)
(* NULL or Some(s).                                                        *)
(*                                                                         *)
(* TLC's integers are 32 bits wide, so the 64-bit quantities of the code   *)
(* (unsigned long long, long long, size_t) are kept at their real width as *)
(* four 16-bit limbs, least significant first.  A C integer value is the   *)
(* mathematical integer [neg, mag].                                        *)
(***************************************************************************)
EXTENDS Integers, Sequences, FiniteSets, TLC

\* ------------------------------------------------------------------------
\* Bounds of the model.

\* Every string of at most MaxLen characters over Alphabet is an input of
\* each parser and of spa_strneq (besides the listed longer strings).
MaxLen == 2

\* spa_strneq is called with every length 0..MaxN.
MaxN == 4

\* The formatter is called with every capacity 0..MaxCap (besides the
\* capacities that are not positive as an ssize_t).
MaxCap == 5

\* ------------------------------------------------------------------------
\* Characters and strings.

Nul == ""
NULL == <<>>
Some(s) == <<s>>

Ch(s, i) == IF i >= 1 /\ i <= Len(s) THEN SubSeq(s, i, i) ELSE Nul

Min(a, b) == IF a < b THEN a ELSE b

Digits36 == "0123456789abcdefghijklmnopqrstuvwxyz"
Upper36 == "0123456789ABCDEFGHIJKLMNOPQRSTUVWXYZ"

DigitTab ==
  [c \in {Ch(Digits36, i) : i \in 1..36} \cup {Ch(Upper36, i) : i \in 1..36} |->
     CHOOSE i \in 0..35 : Ch(Digits36, i + 1) = c \/ Ch(Upper36, i + 1) = c]

\* The value of c as a digit; 36 (a digit of no base) when c is none.
DigitVal(c) == IF c \in DOMAIN DigitTab THEN DigitTab[c] ELSE 36

\* isspace() in the "C" locale.
IsSpace(c) == c \in {" ", "\t", "\n", "\r", "\f"}

\* ------------------------------------------------------------------------
\* 64-bit arithmetic on limbs.

Limb == 2^16
Zero64 == <<0, 0, 0, 0>>
FromInt(n) == <<n % Limb, n \div Limb, 0, 0>>
IsSmall(m) == m[3] = 0 /\ m[4] = 0 /\ m[2] < 2^15
\* m as an int; a value above INT_MAX is read as INT_MAX (no text is that long).
ToInt(m) == IF IsSmall(m) THEN m[1] + Limb * m[2] ELSE 2^15 * Limb - 1
IsZero(m) == m = Zero64

\* m * b + d for 0 <= b <= 36, 0 <= d < 36: the low 64 bits and the carry out.
MulAdd(m, b, d) ==
  LET t1 == m[1] * b + d
      t2 == m[2] * b + t1 \div Limb
      t3 == m[3] * b + t2 \div Limb
      t4 == m[4] * b + t3 \div Limb
  IN  [mag |-> <<t1 % Limb, t2 % Limb, t3 % Limb, t4 % Limb>>, carry |-> t4 \div Limb]

\* m \div b and m % b for 2 <= b <= 36.
DivSmall(m, b) ==
  LET c4 == m[4]
      c3 == (c4 % b) * Limb + m[3]
      c2 == (c3 % b) * Limb + m[2]
      c1 == (c2 % b) * Limb + m[1]
  IN  [quot |-> <<c1 \div b, c2 \div b, c3 \div b, c4 \div b>>, rem |-> c1 % b]

\* m1 < m2.
Less(m1, m2) ==
  \/ m1[4] < m2[4]
  \/ m1[4] = m2[4] /\ m1[3] < m2[3]
  \/ m1[4] = m2[4] /\ m1[3] = m2[3] /\ m1[2] < m2[2]
  \/ m1[4] = m2[4] /\ m1[3] = m2[3] /\ m1[2] = m2[2] /\ m1[1] < m2[1]

\* (2^64 - m) % 2^64: negation in unsigned long long.
Neg64(m) ==
  LET t1 == (Limb - 1 - m[1]) + 1
      t2 == (Limb - 1 - m[2]) + t1 \div Limb
      t3 == (Limb - 1 - m[3]) + t2 \div Limb
      t4 == (Limb - 1 - m[4]) + t3 \div Limb
  IN  <<t1 % Limb, t2 % Limb, t3 % Limb, t4 % Limb>>

\* The limits of the C integer types, as magnitudes.
Pow31 == <<0, 2^15, 0, 0>>
Pow63 == <<0, 0, 0, 2^15>>
Int32Max == <<Limb - 1, 2^15 - 1, 0, 0>>
UInt32Max == <<Limb - 1, Limb - 1, 0, 0>>
Int64Max == <<Limb - 1, Limb - 1, Limb - 1, 2^15 - 1>>
UInt64Max == <<Limb - 1, Limb - 1, Limb - 1, Limb - 1>>

\* A C integer value: the mathematical integer (-1)^neg * mag.
IntVal(neg, mag) == [neg |-> neg /\ ~IsZero(mag), mag |-> mag]
Pos(n) == IntVal(FALSE, FromInt(n))
Minus(n) == IntVal(TRUE, FromInt(n))

\* LONG_MAX and -LONG_MIN of a long of the given width (32 or 64 bits).
SignedMax(bits) == IF bits = 32 THEN Int32Max ELSE Int64Max
SignedMinMag(bits) == IF bits = 32 THEN Pow31 ELSE Pow63

\* ------------------------------------------------------------------------
\* strtol, strtoll, strtoull (ISO C 7.22.1.4).

RECURSIVE SkipSpace(_, _)
SkipSpace(s, i) == IF IsSpace(Ch(s, i)) THEN SkipSpace(s, i + 1) ELSE i

\* The digits of s from position i on: the position after the last one, the
\* value of the digits and whether it exceeds 64 bits (the digits after
\* that are still consumed, and the value is then of no use).
RECURSIVE ScanDigits(_, _, _, _, _)
ScanDigits(s, i, b, mag, over) ==
  IF DigitVal(Ch(s, i)) < b
  THEN IF over
       THEN ScanDigits(s, i + 1, b, mag, TRUE)
       ELSE LET ma == MulAdd(mag, b, DigitVal(Ch(s, i)))
            IN  ScanDigits(s, i + 1, b, ma.mag, ma.carry > 0)
  ELSE [end |-> i, mag |-> mag, over |-> over]

\* Whether the digits at position i1 carry the prefix 0x that base 16 and
\* base 0 take: it is part of the subject sequence only when a hexadecimal
\* digit follows it.
HasHexPrefix(s, i1, base) ==
  /\ base \in {0, 16}
  /\ Ch(s, i1) = "0"
  /\ Ch(s, i1 + 1) \in {"x", "X"}
  /\ DigitVal(Ch(s, i1 + 2)) < 16

\* The base of the digits at position i1: base 0 takes it from the prefix.
EffectiveBase(s, i1, base) ==
  IF base # 0 THEN base
  ELSE IF HasHexPrefix(s, i1, base) THEN 16
  ELSE IF Ch(s, i1) = "0" THEN 8 ELSE 10

DigitsStart(s, i1, base) == IF HasHexPrefix(s, i1, base) THEN i1 + 2 ELSE i1

\* The subject sequence whose digits d were found from position i2 on.  end
\* is the position of the first character after it, 1 when there is no digit
\* (no conversion is performed and endptr is nptr).
ScanResult(neg, i2, d) ==
  IF d.end = i2
  THEN [neg |-> FALSE, mag |-> Zero64, over |-> FALSE, end |-> 1]
  ELSE [neg |-> neg, mag |-> d.mag, over |-> d.over, end |-> d.end]

ScanUnsigned(s, i1, neg, base) ==
  ScanResult(neg, DigitsStart(s, i1, base),
             ScanDigits(s, DigitsStart(s, i1, base), EffectiveBase(s, i1, base), Zero64, FALSE))

ScanSigned(s, i0, base) ==
  ScanUnsigned(s, IF Ch(s, i0) \in {"-", "+"} THEN i0 + 1 ELSE i0, Ch(s, i0) = "-", base)

\* The subject sequence of s: optional white space, an optional sign, an
\* optional 0x and the digits of the base.
ScanInt(s, base) == ScanSigned(s, SkipSpace(s, 1), base)

ValidBase(base) == base = 0 \/ (base >= 2 /\ base <= 36)

\* What strtoull returns for the subject sequence p with errno = e on entry:
\* the value, endptr (a position in the string) and errno.  A minus sign
\* negates the converted value in the return type, and only a magnitude
\* above ULLONG_MAX is a range error.
UnsignedResult(p, e) ==
  IF p.over
  THEN [v |-> IntVal(FALSE, UInt64Max), end |-> p.end, errno |-> "ERANGE"]
  ELSE [v |-> IntVal(FALSE, IF p.neg THEN Neg64(p.mag) ELSE p.mag), end |-> p.end, errno |-> e]

\* What strtol / strtoll return, for a return type of the given width.
SignedResult(p, e, bits) ==
  IF p.neg /\ (p.over \/ Less(SignedMinMag(bits), p.mag))
  THEN [v |-> IntVal(TRUE, SignedMinMag(bits)), end |-> p.end, errno |-> "ERANGE"]
  ELSE IF ~p.neg /\ (p.over \/ Less(SignedMax(bits), p.mag))
  THEN [v |-> IntVal(FALSE, SignedMax(bits)), end |-> p.end, errno |-> "ERANGE"]
  ELSE [v |-> IntVal(p.neg, p.mag), end |-> p.end, errno |-> e]

\* An invalid base: errno is EINVAL and endptr is not stored (end is 0).
BadBase == [v |-> IntVal(FALSE, Zero64), end |-> 0, errno |-> "EINVAL"]

strtoull(s, base, e) ==
  IF ~ValidBase(base) THEN BadBase ELSE UnsignedResult(ScanInt(s, base), e)

strtol(s, base, e, longBits) ==
  IF ~ValidBase(base) THEN BadBase ELSE SignedResult(ScanInt(s, base), e, longBits)

strtoll(s, base, e) ==
  IF ~ValidBase(base) THEN BadBase ELSE SignedResult(ScanInt(s, base), e, 64)

\* ------------------------------------------------------------------------
\* The integer parsers.  Each takes the string, the content of *val and
\* errno on entry, and gives the returned boolean, the content of *val and
\* errno on return.  The second operator of each is the function from the
\* return of the C library's conversion, r, on.

\* (int32_t)v for a long v: the low 32 bits of its two's complement.
Low32Signed(u) ==
  IF u[2] >= 2^15
  THEN IntVal(TRUE, Neg64(<<u[1], u[2], Limb - 1, Limb - 1>>))
  ELSE IntVal(FALSE, <<u[1], u[2], 0, 0>>)

CastInt32(v) == Low32Signed(IF v.neg THEN Neg64(v.mag) ELSE v.mag)

\* The cast to a type as wide as unsigned long long: it changes nothing.
CastUInt32_wide(v) == v

\* (uint32_t)v for an unsigned long long v.
CastUInt32(v) == IntVal(FALSE, <<v.mag[1], v.mag[2], 0, 0>>)

\* !str || *str == '\0'
NoInput(str) == str = NULL \/ Ch(str[1], 1) = Nul

\* The test of the conversion without its look at *endptr.
ConversionFailed_errno_only(str, r) == r.errno # "0"

\* errno != 0 || *endptr != '\0'
ConversionFailed(str, r) == r.errno # "0" \/ Ch(str[1], r.end) # Nul

\* spa_atoi32 with *val = v moved before the test of the narrowing.
spa_atoi32_converted_stores_first(str, val, r) ==
  IF ConversionFailed(str, r)
  THEN [ret |-> FALSE, val |-> val, errno |-> r.errno]
  ELSE IF r.v # CastInt32(r.v)
  THEN [ret |-> FALSE, val |-> CastInt32(r.v), errno |-> r.errno]
  ELSE [ret |-> TRUE, val |-> r.v, errno |-> r.errno]

spa_atoi32_converted(str, val, r) ==
  IF ConversionFailed(str, r)
  THEN [ret |-> FALSE, val |-> val, errno |-> r.errno]
  ELSE IF r.v # CastInt32(r.v)
  THEN [ret |-> FALSE, val |-> val, errno |-> r.errno]
  ELSE [ret |-> TRUE, val |-> r.v, errno |-> r.errno]

spa_atoi32(str, val, base, e, longBits) ==
  IF NoInput(str)
  THEN [ret |-> FALSE, val |-> val, errno |-> e]
  ELSE spa_atoi32_converted(str, val, strtol(str[1], base, "0", longBits))

spa_atou32_converted(str, val, r) ==
  IF ConversionFailed(str, r)
  THEN [ret |-> FALSE, val |-> val, errno |-> r.errno]
  ELSE IF r.v # CastUInt32(r.v)
  THEN [ret |-> FALSE, val |-> val, errno |-> r.errno]
  ELSE [ret |-> TRUE, val |-> r.v, errno |-> r.errno]

spa_atou32(str, val, base, e) ==
  IF NoInput(str)
  THEN [ret |-> FALSE, val |-> val, errno |-> e]
  ELSE spa_atou32_converted(str, val, strtoull(str[1], base, "0"))

\* spa_atoi64, spa_atou64, spa_atof and spa_atod after the conversion.
spa_ato_converted(str, val, r) ==
  IF ConversionFailed(str, r)
  THEN [ret |-> FALSE, val |-> val, errno |-> r.errno]
  ELSE [ret |-> TRUE, val |-> r.v, errno |-> r.errno]

\* spa_atoi64 with strtol in place of strtoll, where long has 32 bits.
spa_atoi64_strtol32(str, val, base, e) ==
  IF NoInput(str)
  THEN [ret |-> FALSE, val |-> val, errno |-> e]
  ELSE spa_ato_converted(str, val, strtol(str[1], base, "0", 32))

spa_atoi64(str, val, base, e) ==
  IF NoInput(str)
  THEN [ret |-> FALSE, val |-> val, errno |-> e]
  ELSE spa_ato_converted(str, val, strtoll(str[1], base, "0"))

\* spa_atou64 without errno = 0 before the conversion.
spa_atou64_stale_errno(str, val, base, e) ==
  IF NoInput(str)
  THEN [ret |-> FALSE, val |-> val, errno |-> e]
  ELSE spa_ato_converted(str, val, strtoull(str[1], base, e))

spa_atou64(str, val, base, e) ==
  IF NoInput(str)
  THEN [ret |-> FALSE, val |-> val, errno |-> e]
  ELSE spa_ato_converted(str, val, strtoull(str[1], base, "0"))

\* ------------------------------------------------------------------------
\* strtof, strtod (ISO C 7.22.1.3).  A floating value is "inf", "nan" or
\* the number (-1)^neg * m * 2^e2 * 5^e5 with m divisible by neither 2 nor
\* 5, so that two spellings of one number are one value.  The value is the
\* one the string denotes: the rounding to 24 or 53 bits is not modelled,
\* only the exponent range of the type, which decides ERANGE.

Lower(c) == IF DigitVal(c) >= 10 /\ DigitVal(c) < 36 THEN Ch(Digits36, DigitVal(c) + 1) ELSE c

RECURSIVE LowerStr(_)
LowerStr(s) == IF s = "" THEN "" ELSE Lower(Ch(s, 1)) \o LowerStr(Tail(s))

\* Whether the characters of s from position i on start with w, in any case.
StartsWith(s, i, w) == i + Len(w) - 1 <= Len(s) /\ LowerStr(SubSeq(s, i, i + Len(w) - 1)) = w

\* m without its factors p, and their number added to k.
RECURSIVE Strip(_, _, _)
Strip(m, p, k) == IF m # 0 /\ m % p = 0 THEN Strip(m \div p, p, k + 1) ELSE [m |-> m, k |-> k]

FloatNum5(neg, a, b, e2, e5) ==
  [kind |-> "num", neg |-> neg, m |-> b.m, e2 |-> e2 + a.k, e5 |-> e5 + b.k]
FloatNum2(neg, a, e2, e5) == FloatNum5(neg, a, Strip(a.m, 5, 0), e2, e5)
FloatNum(neg, mant, e2, e5) ==
  IF mant = 0
  THEN [kind |-> "num", neg |-> neg, m |-> 0, e2 |-> 0, e5 |-> 0]
  ELSE FloatNum2(neg, Strip(mant, 2, 0), e2, e5)
FloatInf(neg) == [kind |-> "inf", neg |-> neg, m |-> 0, e2 |-> 0, e5 |-> 0]
FloatNan(neg) == [kind |-> "nan", neg |-> neg, m |-> 0, e2 |-> 0, e5 |-> 0]

\* A run of digits of base b (10 or 16) from position i on: the position
\* after it, the value of its leading digits (at most b * cap, so that it
\* stays a TLC integer) and the number of trailing digits left out of it.
RECURSIVE ScanMant(_, _, _, _, _, _)
ScanMant(s, i, b, cap, mant, dropped) ==
  IF DigitVal(Ch(s, i)) < b
  THEN IF mant < cap
       THEN ScanMant(s, i + 1, b, cap, mant * b + DigitVal(Ch(s, i)), dropped)
       ELSE ScanMant(s, i + 1, b, cap, mant, dropped + 1)
  ELSE [end |-> i, mant |-> mant, dropped |-> dropped]

\* The exponent part whose digits d start at position j, after the sign if
\* there is one.  ok is false when no digit follows, and then the exponent
\* part is not part of the subject sequence.
ExpResult(neg, j, d) ==
  [ok |-> d.end > j, end |-> d.end, exp |-> IF neg THEN 0 - d.mant ELSE d.mant]

ScanExpDigits(s, j, neg) == ExpResult(neg, j, ScanMant(s, j, 10, 10^5, 0, 0))

\* The exponent part at position i, the character after e or p.
ScanExp(s, i) ==
  ScanExpDigits(s, IF Ch(s, i) \in {"-", "+"} THEN i + 1 ELSE i, Ch(s, i) = "-")

\* The number with nint digits before and nfrac digits after the point,
\* mantissa m (its digits, the point left out) that ends at position mend,
\* and exponent part ex.  any is whether it has a digit; scale is the power
\* of the base the mantissa is scaled by.
NumberResult(nint, nfrac, m, mend, ex) ==
  [any |-> nint + nfrac > 0, mant |-> m.mant, scale |-> m.dropped - nfrac,
   exp |-> IF ex.ok THEN ex.exp ELSE 0,
   end |-> IF ex.ok THEN ex.end ELSE mend]

ScanExponent(s, nint, nfrac, m, mend, ec) ==
  NumberResult(nint, nfrac, m, mend,
               IF Lower(Ch(s, mend)) = ec
               THEN ScanExp(s, mend + 1)
               ELSE [ok |-> FALSE, end |-> mend, exp |-> 0])

ScanFraction(s, i, cap, b, ec, ip, fp) ==
  ScanExponent(s, ip.end - i, fp.end - (ip.end + 1), fp, fp.end, ec)

ScanPoint(s, i, b, cap, ec, ip) ==
  IF Ch(s, ip.end) = "."
  THEN ScanFraction(s, i, cap, b, ec, ip, ScanMant(s, ip.end + 1, b, cap, ip.mant, ip.dropped))
  ELSE ScanExponent(s, ip.end - i, 0, ip, ip.end, ec)

\* digits [. digits] [exponent part] of base b from position i on, the
\* exponent part introduced by the character ec.
ScanNumber(s, i, b, cap, ec) == ScanPoint(s, i, b, cap, ec, ScanMant(s, i, b, cap, 0, 0))

\* The number of digits of m > 0 in base b.
RECURSIVE NumDigits(_, _)
NumDigits(m, b) == IF m < b THEN 1 ELSE 1 + NumDigits(m \div b, b)

\* The exponent range of the type: "float" (FLT_MAX 3.4028235e38 = 2^128
\* less half an ulp, FLT_MIN 1.17549435e-38 = 2^-126) or "double" (DBL_MAX
\* 1.7976931e308 = 2^1024, DBL_MIN 2.2250738e-308 = 2^-1022).  The decimal
\* limits are the first eight digits and the decimal exponent.
FloatFmt(fmt) ==
  IF fmt = "float"
  THEN [maxExp |-> 38, maxLead |-> 34028235, minExp |-> 0 - 38, minLead |-> 11754944,
        maxBits |-> 128, minBits |-> 0 - 125]
  ELSE [maxExp |-> 308, maxLead |-> 17976931, minExp |-> 0 - 308, minLead |-> 22250739,
        maxBits |-> 1024, minBits |-> 0 - 1021]

\* Where a number lies in the range f of the type: "over" above the largest
\* finite value, "under" below the smallest normalized one.  The number has
\* decimal exponent sci and leading eight digits lead.
DecClass(f, sci, lead) ==
  IF sci > f.maxExp \/ (sci = f.maxExp /\ lead > f.maxLead) THEN "over"
  ELSE IF sci < f.minExp \/ (sci = f.minExp /\ lead < f.minLead) THEN "under"
  ELSE "normal"

\* The same for mant * 10^e10, mant > 0 of nd digits.
DecRangeOf(mant, nd, e10, fmt) ==
  DecClass(FloatFmt(fmt), nd - 1 + e10,
           IF nd <= 8 THEN mant * 10^(8 - nd) ELSE mant \div 10^(nd - 8))

DecRange(mant, e10, fmt) == DecRangeOf(mant, NumDigits(mant, 10), e10, fmt)

\* The same for a number whose leading bit is the bit top - 1.
HexClass(f, top) ==
  IF top > f.maxBits THEN "over" ELSE IF top < f.minBits THEN "under" ELSE "normal"

HexRange(mant, e2, fmt) == HexClass(FloatFmt(fmt), NumDigits(mant, 2) + e2)

\* What the scan of a floating-point string gives: whether a conversion is
\* performed, the value, its place in the range, the end of the subject
\* sequence.
NoFloat == [any |-> FALSE, v |-> FloatNum(FALSE, 0, 0, 0), range |-> "normal", end |-> 1]
Special(v, end) == [any |-> TRUE, v |-> v, range |-> "normal", end |-> end]

DecFloat(neg, dc, fmt) ==
  IF ~dc.any THEN NoFloat
  ELSE [any |-> TRUE,
        v |-> FloatNum(neg, dc.mant, dc.scale + dc.exp, dc.scale + dc.exp),
        range |-> IF dc.mant = 0 THEN "normal" ELSE DecRange(dc.mant, dc.scale + dc.exp, fmt),
        end |-> dc.end]

\* A hexadecimal number hx after 0x; 0x with no digit after it is the
\* decimal number 0 followed by x.
HexFloat(s, i1, neg, hx, fmt) ==
  IF ~hx.any THEN DecFloat(neg, ScanNumber(s, i1, 10, 10^8, "e"), fmt)
  ELSE [any |-> TRUE,
        v |-> FloatNum(neg, hx.mant, 4 * hx.scale + hx.exp, 0),
        range |-> IF hx.mant = 0 THEN "normal" ELSE HexRange(hx.mant, 4 * hx.scale + hx.exp, fmt),
        end |-> hx.end]

\* NAN or NAN(n-char-sequence); j is the position after the n-char-sequence.
RECURSIVE ScanNChars(_, _)
ScanNChars(s, i) == IF DigitVal(Ch(s, i)) < 36 \/ Ch(s, i) = "_" THEN ScanNChars(s, i + 1) ELSE i

NanFloat(s, i1, neg, j) ==
  Special(FloatNan(neg), IF Ch(s, i1 + 3) = "(" /\ Ch(s, j) = ")" THEN j + 1 ELSE i1 + 3)

\* After the sign: INF or INFINITY, NAN, a hexadecimal or a decimal number.
ScanFloatUnsigned(s, i1, neg, fmt) ==
  IF StartsWith(s, i1, "infinity") THEN Special(FloatInf(neg), i1 + 8)
  ELSE IF StartsWith(s, i1, "inf") THEN Special(FloatInf(neg), i1 + 3)
  ELSE IF StartsWith(s, i1, "nan") THEN NanFloat(s, i1, neg, ScanNChars(s, i1 + 4))
  ELSE IF StartsWith(s, i1, "0x") THEN HexFloat(s, i1, neg, ScanNumber(s, i1 + 2, 16, 2^24, "p"), fmt)
  ELSE DecFloat(neg, ScanNumber(s, i1, 10, 10^8, "e"), fmt)

ScanFloatSigned(s, i0, fmt) ==
  ScanFloatUnsigned(s, IF Ch(s, i0) \in {"-", "+"} THEN i0 + 1 ELSE i0, Ch(s, i0) = "-", fmt)

\* The subject sequence of a floating-point string: white space, a sign,
\* then the number.
ScanFloat(s, fmt) == ScanFloatSigned(s, SkipSpace(s, 1), fmt)

\* What strtof / strtod return for the scan p with errno = e on entry.  On
\* overflow the value is HUGE_VAL and errno is ERANGE; on underflow the value
\* is the tiny number and whether errno becomes ERANGE is
\* implementation-defined (underflowSets).
FloatResult(p, e, underflowSets) ==
  IF p.range = "over"
  THEN [v |-> FloatInf(p.v.neg), end |-> p.end, errno |-> "ERANGE"]
  ELSE IF p.range = "under"
  THEN [v |-> p.v, end |-> p.end, errno |-> IF underflowSets THEN "ERANGE" ELSE e]
  ELSE [v |-> p.v, end |-> p.end, errno |-> e]

strtof(s, e, underflowSets) == FloatResult(ScanFloat(s, "float"), e, underflowSets)
strtod(s, e, underflowSets) == FloatResult(ScanFloat(s, "double"), e, underflowSets)

\* ------------------------------------------------------------------------
\* The floating-point parsers.

spa_atof(str, val, e, underflowSets) ==
  IF NoInput(str)
  THEN [ret |-> FALSE, val |-> val, errno |-> e]
  ELSE spa_ato_converted(str, val, strtof(str[1], "0", underflowSets))

spa_atod(str, val, e, underflowSets) ==
  IF NoInput(str)
  THEN [ret |-> FALSE, val |-> val, errno |-> e]
  ELSE spa_ato_converted(str, val, strtod(str[1], "0", underflowSets))

\* ------------------------------------------------------------------------
\* String comparison.

\* strncmp(s1, s2, n): at most n characters are compared, and none after a
\* nul.  The result is 0 or not 0 (1): its sign is not modelled, as the code
\* only tests it against 0.
RECURSIVE strncmp_from(_, _, _, _)
strncmp_from(s1, s2, n, i) ==
  IF i > n THEN 0
  ELSE IF Ch(s1, i) # Ch(s2, i) THEN 1
  ELSE IF Ch(s1, i) = Nul THEN 0
  ELSE strncmp_from(s1, s2, n, i + 1)

strncmp(s1, s2, n) == strncmp_from(s1, s2, n, 1)

\* spa_strneq comparing no more characters than the shorter string has.
spa_strneq_shorter(s1, s2, len) ==
  IF s1 # NULL /\ s2 # NULL
  THEN strncmp(s1[1], s2[1], Min(len, Min(Len(s1[1]), Len(s2[1])))) = 0
  ELSE s1 = s2

spa_strneq(s1, s2, len) ==
  IF s1 # NULL /\ s2 # NULL THEN strncmp(s1[1], s2[1], len) = 0 ELSE s1 = s2

\* ------------------------------------------------------------------------
\* The bounded formatter.  The format string and its arguments are modelled
\* by what they expand to: the text out, or an error err < 0 of the
\* formatting.  buffer is the caller's array, a sequence of characters; size
\* is a size_t, kept as limbs.

\* (ssize_t)size > 0
SSizePositive(size) == size[4] < 2^15 /\ ~IsZero(size)

\* spa_assert(expr): the program goes on when expr holds and is aborted
\* otherwise.
spa_assert(expr) == expr

\* vsnprintf(buffer, n, format, args) for 0 < n: at most n - 1 characters of
\* the text and a nul are written, and the length of the whole text is
\* returned.  When the formatting fails, err is returned, and what the
\* buffer holds is unspecified: here the first part characters of the text,
\* and no nul.
vsnprintf_write(buffer, out, k, w, err) ==
  IF err < 0
  THEN [r |-> err,
        buffer |-> [i \in 1..Len(buffer) |-> IF i <= w THEN Ch(out, i) ELSE buffer[i]]]
  ELSE [r |-> Len(out),
        buffer |-> [i \in 1..Len(buffer) |->
                      IF i <= k THEN Ch(out, i) ELSE IF i = k + 1 THEN Nul ELSE buffer[i]]]

vsnprintf(buffer, n, out, err, part) ==
  vsnprintf_write(buffer, out, Min(Len(out), n - 1), Min(part, Min(Len(out), n - 1)), err)

\* spa_vscnprintf returning what vsnprintf returned, not clamped.
spa_vscnprintf_formatted_unclamped(size, f) ==
  [aborted |-> FALSE,
   buffer |-> IF f.r < 0 THEN [f.buffer EXCEPT ![1] = Nul] ELSE f.buffer,
   r |-> f.r]

\* spa_vscnprintf without buffer[0] = '\0' after a failed formatting.
spa_vscnprintf_formatted_unterminated(size, f) ==
  [aborted |-> FALSE,
   buffer |-> f.buffer,
   r |-> IF f.r < ToInt(size) THEN f.r ELSE ToInt(size) - 1]

\* spa_vscnprintf after vsnprintf returned f.
spa_vscnprintf_formatted(size, f) ==
  [aborted |-> FALSE,
   buffer |-> IF f.r < 0 THEN [f.buffer EXCEPT ![1] = Nul] ELSE f.buffer,
   r |-> IF f.r < ToInt(size) THEN f.r ELSE ToInt(size) - 1]

\* spa_vscnprintf without the assertion on size.
spa_vscnprintf_unasserted(buffer, size, out, err, part) ==
  spa_vscnprintf_formatted(size, vsnprintf(buffer, ToInt(size), out, err, part))

\* The result: whether the program was aborted, the buffer, and the returned
\* value (there is none when the program was aborted).
spa_vscnprintf(buffer, size, out, err, part) ==
  IF ~spa_assert(SSizePositive(size))
  THEN [aborted |-> TRUE, buffer |-> buffer, r |-> 0]
  ELSE spa_vscnprintf_formatted(size, vsnprintf(buffer, ToInt(size), out, err, part))

spa_scnprintf(buffer, size, out, err, part) == spa_vscnprintf(buffer, size, out, err, part)

\* The C string a buffer holds: the characters before its first nul.
RECURSIVE CStr(_)
CStr(b) == IF b = <<>> \/ Head(b) = Nul THEN "" ELSE Head(b) \o CStr(Tail(b))

\* ------------------------------------------------------------------------
\* Rendering of integers, for the inputs.

RECURSIVE RenderMag(_, _)
RenderMag(m, b) ==
  IF IsZero(m) THEN ""
  ELSE LET d == DivSmall(m, b) IN RenderMag(d.quot, b) \o Ch(Digits36, d.rem + 1)

\* The digits of |v| in base b (2..36), without sign or prefix.
RenderDigits(v, b) == IF IsZero(v.mag) THEN "0" ELSE RenderMag(v.mag, b)

\* v in base b: a minus sign when negative, then the digits.
Render(v, b) == (IF v.neg THEN "-" ELSE "") \o RenderDigits(v, b)

\* v in base b (8, 10 or 16) with the prefix that base 0 detects.
RenderPrefixed(v, b) ==
  (IF v.neg THEN "-" ELSE "") \o (IF b = 16 THEN "0x" ELSE IF b = 8 THEN "0" ELSE "")
    \o RenderDigits(v, b)

\* ------------------------------------------------------------------------
\* The inputs of the calls.

Alphabet == {"-", " ", "0", "1", "8", "x", "f", ".", "e"}

RECURSIVE StringsOfLen(_)
StringsOfLen(n) == IF n = 0 THEN {""} ELSE {s \o c : s \in StringsOfLen(n - 1), c \in Alphabet}

ShortStrings == UNION {StringsOfLen(n) : n \in 0..MaxLen}

LongStrings ==
  {"42xyz", "42 ", " 42", "+42", "3.14", "3.14 ", "123abc", "0x1F", "0X1f", "-0x10", "0x1p3",
   "010", "-010", "1e5", "1e38", "1e39", "1e-46", "1e308", "1e309", "1e-324",
   "inf", "-inf", "nan", "infinity", "true", "7fffffff", "ffffffff", "zz",
   "2147483647", "2147483648", "-2147483648", "-2147483649",
   "4294967295", "4294967296", "-4294967295",
   "9223372036854775807", "9223372036854775808",
   "-9223372036854775808", "-9223372036854775809",
   "18446744073709551615", "18446744073709551616",
   "-18446744073709551615", "-18446744073709551616",
   "-18446744069414584320", "-18446744069414584321",
   "99999999999999999999999999"}

Strings == ShortStrings \cup LongStrings
StrArgs == {NULL} \cup {Some(s) : s \in Strings}

\* The values of each target type that are rendered: its limits, their
\* neighbours, and some values between.
Int32Vals ==
  {IntVal(TRUE, Pow31), IntVal(TRUE, Int32Max), Minus(42), Minus(1), Pos(0), Pos(1), Pos(42),
   IntVal(FALSE, <<22136, 4660, 0, 0>>), IntVal(FALSE, <<Limb - 2, 2^15 - 1, 0, 0>>),
   IntVal(FALSE, Int32Max)}
UInt32Vals ==
  {Pos(0), Pos(1), Pos(42), IntVal(FALSE, <<22136, 4660, 0, 0>>), IntVal(FALSE, Pow31),
   IntVal(FALSE, <<Limb - 2, Limb - 1, 0, 0>>), IntVal(FALSE, UInt32Max)}
Int64Vals ==
  Int32Vals \cup
  {IntVal(TRUE, Pow63), IntVal(TRUE, Int64Max), IntVal(TRUE, <<1, 2^15, 0, 0>>),
   IntVal(TRUE, <<1, 2, 3, 4>>), IntVal(FALSE, Pow31), IntVal(FALSE, <<0, 0, 1, 0>>),
   IntVal(FALSE, <<1, 2, 3, 4>>), IntVal(FALSE, <<Limb - 2, Limb - 1, Limb - 1, 2^15 - 1>>),
   IntVal(FALSE, Int64Max)}
UInt64Vals ==
  UInt32Vals \cup
  {IntVal(FALSE, <<0, 0, 1, 0>>), IntVal(FALSE, <<1, 2, 3, 4>>), IntVal(FALSE, Int64Max),
   IntVal(FALSE, Pow63), IntVal(FALSE, <<Limb - 2, Limb - 1, Limb - 1, Limb - 1>>),
   IntVal(FALSE, UInt64Max)}

\* Negative numbers of large magnitude, in the range of no target type.
FarNegativeVals ==
  {IntVal(TRUE, <<1, 0, 0, 2^15>>), IntVal(TRUE, <<0, 0, Limb - 1, Limb - 1>>),
   IntVal(TRUE, <<1, 0, Limb - 1, Limb - 1>>), IntVal(TRUE, UInt64Max)}

NumeralVals == Int64Vals \cup UInt64Vals \cup FarNegativeVals

Bases == 2..36
PrefixBases == {8, 10, 16}

\* The renderings, computed once.
RenderTab == [b \in Bases |-> [v \in NumeralVals |-> Render(v, b)]]
PrefixTab == [b \in PrefixBases |-> [v \in NumeralVals |-> RenderPrefixed(v, b)]]

\* The (string, base) arguments of the integer parsers: every short string
\* with the usual bases, the long strings also with an unusual and with an
\* invalid base, and every rendering with its base.
IntInputs ==
  {[str |-> s, base |-> b] : s \in StrArgs, b \in {0, 8, 10, 16}}
    \cup {[str |-> Some(s), base |-> b] : s \in LongStrings, b \in {1, 2, 36}}
    \cup {[str |-> Some(RenderTab[b][v]), base |-> b] : v \in NumeralVals, b \in Bases}
    \cup {[str |-> Some(PrefixTab[b][v]), base |-> 0] : v \in NumeralVals, b \in PrefixBases}

\* What the output slot may hold before a call.
IntPriors == {Pos(0), Minus(7)}
FloatPriors == {FloatNum(FALSE, 0, 0, 0), FloatNan(FALSE)}

\* The widths of long among the builds: ILP32 and LP64.
LongWidths == {32, 64}

\* The arguments of spa_strneq.
CmpStrings == {s \in ShortStrings : \A i \in 1..Len(s) : Ch(s, i) \in {"0", "1"}} \cup {"0101", "010"}
CmpArgs == {NULL} \cup {Some(s) : s \in CmpStrings}

\* The arguments of the formatter: a buffer of BufLen characters of which
\* size are said to be usable, and a text.
BufLen == MaxCap + 1
Text == "hello, world"
Texts == {SubSeq(Text, 1, n) : n \in 0..(MaxCap + 2)} \cup {"hi"}
Sizes == {FromInt(n) : n \in 0..MaxCap} \cup {Pow63, UInt64Max}
FreshBuffer == [i \in 1..BufLen |-> "?"]
FormatErrors == {0 - 1, 0 - 2}

\* ------------------------------------------------------------------------
\* The state: a thread that calls the functions one after the other.

VARIABLES
  pc,      \* "idle", "returned" (a call has returned) or "aborted"
  errno,   \* the thread's errno: "0", "ERANGE" or "EINVAL"
  fn,      \* the function called last, "none" before any call
  args,    \* its arguments, and errno on entry
  result   \* what it returned and what it left in *val or in the buffer

vars == <<pc, errno, fn, args, result>>

Parsers == {"spa_atoi32", "spa_atou32", "spa_atoi64", "spa_atou64", "spa_atof", "spa_atod"}
Formatters == {"spa_vscnprintf", "spa_scnprintf"}

Init ==
  /\ pc = "idle"
  /\ errno = "0"
  /\ fn = "none"
  /\ args = <<>>
  /\ result = <<>>

\* A parser has returned r.
Returned(f, a, r) ==
  /\ pc' = "returned"
  /\ fn' = f
  /\ args' = a
  /\ result' = [ret |-> r.ret, val |-> r.val]
  /\ errno' = r.errno

Call_atoi32 ==
  /\ pc = "idle"
  /\ \E in \in IntInputs, prior \in IntPriors, lb \in LongWidths :
       Returned("spa_atoi32",
                [str |-> in.str, base |-> in.base, val |-> prior, errno |-> errno, longBits |-> lb],
                spa_atoi32(in.str, prior, in.base, errno, lb))

Call_atou32 ==
  /\ pc = "idle"
  /\ \E in \in IntInputs, prior \in IntPriors :
       Returned("spa_atou32",
                [str |-> in.str, base |-> in.base, val |-> prior, errno |-> errno],
                spa_atou32(in.str, prior, in.base, errno))

Call_atoi64 ==
  /\ pc = "idle"
  /\ \E in \in IntInputs, prior \in IntPriors :
       Returned("spa_atoi64",
                [str |-> in.str, base |-> in.base, val |-> prior, errno |-> errno],
                spa_atoi64(in.str, prior, in.base, errno))

Call_atou64 ==
  /\ pc = "idle"
  /\ \E in \in IntInputs, prior \in IntPriors :
       Returned("spa_atou64",
                [str |-> in.str, base |-> in.base, val |-> prior, errno |-> errno],
                spa_atou64(in.str, prior, in.base, errno))

Call_atof ==
  /\ pc = "idle"
  /\ \E s \in StrArgs, prior \in FloatPriors, uf \in BOOLEAN :
       Returned("spa_atof",
                [str |-> s, val |-> prior, errno |-> errno, underflowSets |-> uf],
                spa_atof(s, prior, errno, uf))

Call_atod ==
  /\ pc = "idle"
  /\ \E s \in StrArgs, prior \in FloatPriors, uf \in BOOLEAN :
       Returned("spa_atod",
                [str |-> s, val |-> prior, errno |-> errno, underflowSets |-> uf],
                spa_atod(s, prior, errno, uf))

Call_strneq ==
  /\ pc = "idle"
  /\ \E s1 \in CmpArgs, s2 \in CmpArgs, len \in 0..MaxN :
       /\ pc' = "returned"
       /\ fn' = "spa_strneq"
       /\ args' = [s1 |-> s1, s2 |-> s2, len |-> len]
       /\ result' = [ret |-> spa_strneq(s1, s2, len)]
       /\ UNCHANGED errno

\* The formatter has returned r, or has aborted the program.
Formatted(f, a, r) ==
  /\ pc' = IF r.aborted THEN "aborted" ELSE "returned"
  /\ fn' = f
  /\ args' = a
  /\ result' = r
  /\ UNCHANGED errno

Call_vscnprintf ==
  /\ pc = "idle"
  /\ \E size \in Sizes, out \in Texts, err \in FormatErrors \cup {0}, part \in 0..1 :
       Formatted("spa_vscnprintf",
                 [buffer |-> FreshBuffer, size |-> size, out |-> out, err |-> err, part |-> part],
                 spa_vscnprintf(FreshBuffer, size, out, err, part))

Call_scnprintf ==
  /\ pc = "idle"
  /\ \E size \in Sizes, out \in Texts, err \in FormatErrors \cup {0}, part \in 0..1 :
       Formatted("spa_scnprintf",
                 [buffer |-> FreshBuffer, size |-> size, out |-> out, err |-> err, part |-> part],
                 spa_scnprintf(FreshBuffer, size, out, err, part))

\* The caller takes the result and goes on; errno stays as the call left it.
Resume ==
  /\ pc = "returned"
  /\ pc' = "idle"
  /\ fn' = "none"
  /\ args' = <<>>
  /\ result' = <<>>
  /\ UNCHANGED errno

Next ==
  \/ Call_atoi32
  \/ Call_atou32
  \/ Call_atoi64
  \/ Call_atou64
  \/ Call_atof
  \/ Call_atod
  \/ Call_strneq
  \/ Call_vscnprintf
  \/ Call_scnprintf
  \/ Resume

Spec == Init /\ [][Next]_vars

\* ------------------------------------------------------------------------
\* What the properties below speak of.

IntParsers == {"spa_atoi32", "spa_atou32", "spa_atoi64", "spa_atou64"}
FloatParsers == {"spa_atof", "spa_atod"}
Errnos == {"0", "ERANGE", "EINVAL"}

\* The call of f has returned.
Done(f) == pc = "returned" /\ fn = f
ParserDone == pc = "returned" /\ fn \in Parsers
FormatterDone == pc = "returned" /\ fn \in Formatters

\* The parser f on the string str with errno = e on entry, the other
\* arguments those of the call a.
Run(f, a, str, e) ==
  CASE f = "spa_atoi32" -> spa_atoi32(str, a.val, a.base, e, a.longBits)
    [] f = "spa_atou32" -> spa_atou32(str, a.val, a.base, e)
    [] f = "spa_atoi64" -> spa_atoi64(str, a.val, a.base, e)
    [] f = "spa_atou64" -> spa_atou64(str, a.val, a.base, e)
    [] f = "spa_atof" -> spa_atof(str, a.val, e, a.underflowSets)
    [] f = "spa_atod" -> spa_atod(str, a.val, e, a.underflowSets)

\* The values of the target type of f that are rendered.
TypeVals(f) ==
  CASE f = "spa_atoi32" -> Int32Vals
    [] f = "spa_atou32" -> UInt32Vals
    [] f = "spa_atoi64" -> Int64Vals
    [] f = "spa_atou64" -> UInt64Vals

\* s is a numeral of base b: an optional sign and at least one digit of the
\* base, nothing else.
HasSign(s) == Ch(s, 1) \in {"-", "+"}
DigitsOf(s) == IF HasSign(s) THEN Tail(s) ELSE s
IsNumeral(s, b) ==
  /\ DigitsOf(s) # ""
  /\ \A i \in 1..Len(DigitsOf(s)) : DigitVal(Ch(DigitsOf(s), i)) < b

\* A digit string without its leading zeros ("0" for zero), in lower case.
RECURSIVE StripZeros(_)
StripZeros(d) == IF Len(d) > 1 /\ Ch(d, 1) = "0" THEN StripZeros(Tail(d)) ELSE d
Magnitude(s) == LowerStr(StripZeros(DigitsOf(s)))

\* The numeral s as Render writes its value.
Canonical(s) == (IF Ch(s, 1) = "-" /\ Magnitude(s) # "0" THEN "-" ELSE "") \o Magnitude(s)

\* x <= y for digit strings without leading zeros: by length, then digit by
\* digit from the left.
RECURSIVE DigitsLeqFrom(_, _, _)
DigitsLeqFrom(x, y, i) ==
  IF i > Len(x) THEN TRUE
  ELSE IF DigitVal(Ch(x, i)) # DigitVal(Ch(y, i)) THEN DigitVal(Ch(x, i)) < DigitVal(Ch(y, i))
  ELSE DigitsLeqFrom(x, y, i + 1)
DigitsLeq(x, y) == Len(x) < Len(y) \/ (Len(x) = Len(y) /\ DigitsLeqFrom(x, y, 1))

\* The value of the numeral s of base b lies in -2^31 .. 2^31 - 1.
InInt32Range(s, b) ==
  IF Ch(s, 1) = "-"
  THEN DigitsLeq(Magnitude(s), RenderTab[b][IntVal(FALSE, Pow31)])
  ELSE DigitsLeq(Magnitude(s), RenderTab[b][IntVal(FALSE, Int32Max)])

\* The value of the numeral s of base b, which has no minus sign, is at most
\* 2^32 - 1.
InUInt32Range(s, b) == DigitsLeq(Magnitude(s), RenderTab[b][IntVal(FALSE, UInt32Max)])

\* A character that no numeral of the parser's grammar holds: for an integer
\* parser with the given base, one that is no digit of the base (of base 16
\* for base 0) and, with base 0 or 16, not the x of a prefix; for a
\* floating-point parser, white space or a letter that is no hexadecimal
\* digit and occurs in none of e, p, x, inf, infinity, nan.
JunkFor(f, base, c) ==
  IF f \in IntParsers
  THEN /\ c # Nul
       /\ DigitVal(c) >= (IF base = 0 THEN 16 ELSE base)
       /\ base \in {0, 16} => c \notin {"x", "X"}
  ELSE \/ IsSpace(c)
       \/ DigitVal(c) >= 16 /\ DigitVal(c) < 36 /\ Lower(c) \notin {"p", "x", "i", "n", "t", "y"}

\* The string of the call is a string the parser accepts followed by a
\* character of no numeral, and then anything.
HasJunkTail ==
  /\ args.str # NULL
  /\ \E k \in 1..(Len(args.str[1]) - 1) :
       /\ JunkFor(fn, IF fn \in IntParsers THEN args.base ELSE 10, Ch(args.str[1], k + 1))
       /\ Run(fn, args, Some(SubSeq(args.str[1], 1, k)), "0").ret

\* Where the conversion of the call's string stopped: the position of the
\* character endptr points to.
StoppedAt ==
  IF fn \in IntParsers THEN ScanInt(args.str[1], args.base).end
  ELSE ScanFloat(args.str[1], IF fn = "spa_atof" THEN "float" ELSE "double").end

\* r is what the call returned and stored.
SameResult(r) == r.ret = result.ret /\ r.val = result.val

ProperPrefix(a, b) == Len(a) < Len(b) /\ SubSeq(b, 1, Len(a)) = a

\* ------------------------------------------------------------------------
\* The properties.

\* C1: whenever one of the six numeric parsers returns false, whatever the
\* cause (absent or empty string, range error, trailing characters, a value
\* that does not fit 32 bits), the output slot holds what it held before the
\* call.
C1_FailureLeavesSlot == ParserDone /\ ~result.ret => result.val = args.val

\* A call of spa_atoi32 that failed in the narrowing to 32 bits: the
\* conversion itself succeeded (errno is 0, the string is a numeral).
C1_Witness ==
  /\ Done("spa_atoi32")
  /\ args.str = Some("4294967296") /\ args.base = 10 /\ args.longBits = 64
  /\ errno = "0"
  /\ ~result.ret
  /\ args.val = Minus(7) /\ result.val = Minus(7)

\* C2: a string the parser accepts followed by a character of no numeral
\* (and then anything) is rejected, by every integer parser with every base
\* and by both floating-point parsers; and a parser returns true only for a
\* string that is present, not empty and whose conversion stopped at the
\* terminating nul.
C2_StrictConsumption ==
  ParserDone =>
    /\ HasJunkTail => ~result.ret
    /\ result.ret =>
         /\ args.str # NULL
         /\ args.str[1] # ""
         /\ StoppedAt = Len(args.str[1]) + 1

\* spa_atoi32 was given "42xyz" in base 10, of which "42" alone is accepted.
C2_Witness ==
  /\ Done("spa_atoi32")
  /\ args.str = Some("42xyz") /\ args.base = 10
  /\ HasJunkTail
  /\ StoppedAt = 3
  /\ ~result.ret

\* C3: for a numeral of the base, spa_atoi32 returns true exactly when its
\* value lies in INT32_MIN .. INT32_MAX, and for a numeral without a minus
\* sign spa_atou32 returns true exactly when its value is at most
\* UINT32_MAX; the stored value is the value of the numeral, never a clamped
\* or wrapped one.
C3_RangeCheck32 ==
  /\ Done("spa_atoi32") /\ args.str # NULL /\ args.base \in Bases /\ IsNumeral(args.str[1], args.base)
       => /\ result.ret <=> InInt32Range(args.str[1], args.base)
          /\ result.ret => Render(result.val, args.base) = Canonical(args.str[1])
  /\ Done("spa_atou32") /\ args.str # NULL /\ args.base \in Bases /\ IsNumeral(args.str[1], args.base)
       /\ Ch(args.str[1], 1) # "-"
       => /\ result.ret <=> InUInt32Range(args.str[1], args.base)
          /\ result.ret => Render(result.val, args.base) = Canonical(args.str[1])

\* spa_atou32 was given one more than UINT32_MAX and has rejected it, the
\* conversion itself having succeeded.
C3_Witness ==
  /\ Done("spa_atou32")
  /\ args.str = Some("4294967296") /\ args.base = 10
  /\ errno = "0"
  /\ ~result.ret

\* C4: spa_atou32 returns false for every numeral with a minus sign and a
\* magnitude that is not zero, of any length and in any base; spa_atoi32
\* given "-1" returns true and stores -1.
C4_NegativeRejected ==
  /\ Done("spa_atou32") /\ args.str # NULL /\ args.base \in Bases /\ IsNumeral(args.str[1], args.base)
       /\ Ch(args.str[1], 1) = "-" /\ Magnitude(args.str[1]) # "0"
       => ~result.ret
  /\ Done("spa_atoi32") /\ args.str = Some("-1") /\ args.base \in Bases
       => result.ret /\ result.val = Minus(1)

\* C5: each integer parser, given the rendering of a value v of its target
\* type in a base b and that base, returns true and stores v; and so it does
\* with base 0, when the rendering carries the prefix of its base.
C5_RoundTrip ==
  pc = "returned" /\ fn \in IntParsers /\ args.str # NULL =>
    \A v \in TypeVals(fn) :
      /\ args.base \in Bases /\ args.str[1] = RenderTab[args.base][v]
           => result.ret /\ result.val = v
      /\ args.base = 0 /\ (\E b \in PrefixBases : args.str[1] = PrefixTab[b][v])
           => result.ret /\ result.val = v

\* spa_atoi64 was given INT64_MIN in base 16 and has stored it.
C5_Witness ==
  /\ Done("spa_atoi64")
  /\ args.str = Some("-8000000000000000") /\ args.base = 16
  /\ args.str[1] = RenderTab[16][IntVal(TRUE, Pow63)]
  /\ result.ret
  /\ result.val = IntVal(TRUE, Pow63)

\* C6: when the formatting succeeds with a text of length L and the
\* capacity is positive, the formatter returns L when L < capacity and
\* capacity - 1 otherwise; the returned count is less than the capacity, the
\* buffer holds that many characters of the text and a nul after them, and
\* no character at or after the capacity is written.
C6_FormatterReturn ==
  FormatterDone /\ args.err = 0 =>
    /\ result.r = (IF Len(args.out) < ToInt(args.size) THEN Len(args.out) ELSE ToInt(args.size) - 1)
    /\ result.r >= 0 /\ result.r < ToInt(args.size)
    /\ result.buffer[result.r + 1] = Nul
    /\ CStr(result.buffer) = SubSeq(args.out, 1, result.r)
    /\ \A i \in (ToInt(args.size) + 1)..BufLen : result.buffer[i] = args.buffer[i]

\* "hello" was formatted into a capacity of 4: "hel" and 3.
C6_Witness ==
  /\ FormatterDone
  /\ args.err = 0 /\ args.size = FromInt(4) /\ args.out = "hello"
  /\ CStr(result.buffer) = "hel"
  /\ result.r = 3

\* C7: a call of the formatter with a capacity that is not positive as a
\* signed size aborts the program: it does not return, and the buffer is as
\* it was.
C7_BadCapacityAborts ==
  fn \in Formatters /\ ~SSizePositive(args.size) =>
    /\ pc = "aborted"
    /\ result.aborted
    /\ result.buffer = args.buffer

\* The formatter was called with capacity 0.
C7_Witness ==
  /\ fn = "spa_scnprintf"
  /\ args.size = Zero64
  /\ pc = "aborted"

\* C8, as claimed: when s1 is a proper prefix of s2, spa_strneq returns true
\* for every length; with an absent argument it returns true exactly when
\* both are absent.
C8_PrefixAlwaysEqual ==
  Done("spa_strneq") =>
    /\ args.s1 # NULL /\ args.s2 # NULL /\ ProperPrefix(args.s1[1], args.s2[1]) => result.ret
    /\ args.s1 = NULL \/ args.s2 = NULL => (result.ret <=> args.s1 = NULL /\ args.s2 = NULL)

\* C8, amended: when s1 is a proper prefix of s2, spa_strneq returns true
\* exactly for the lengths up to the length of s1 (beyond it, the nul that
\* ends s1 is compared with the next character of s2); with an absent
\* argument it returns true exactly when both are absent.
C8_PrefixEqualUpToLength ==
  Done("spa_strneq") =>
    /\ args.s1 # NULL /\ args.s2 # NULL /\ ProperPrefix(args.s1[1], args.s2[1])
         => (result.ret <=> args.len <= Len(args.s1[1]))
    /\ args.s1 = NULL \/ args.s2 = NULL => (result.ret <=> args.s1 = NULL /\ args.s2 = NULL)

\* "0" was compared with "01" over 2 characters, and they differ.
C8_Witness ==
  /\ Done("spa_strneq")
  /\ args.s1 = Some("0") /\ args.s2 = Some("01") /\ args.len = 2
  /\ ~result.ret

\* C9: when the formatting fails with the negative result err and the
\* capacity is positive, the formatter returns err itself, and the buffer
\* holds the empty string.
C9_ErrorPath ==
  FormatterDone /\ args.err < 0 =>
    /\ result.r = args.err
    /\ result.buffer[1] = Nul
    /\ CStr(result.buffer) = ""

\* The formatting failed with -2 after a character had been written.
C9_Witness ==
  /\ FormatterDone
  /\ args.err = 0 - 2 /\ args.part = 1 /\ args.out = "hi" /\ args.size = FromInt(4)
  /\ result.r = 0 - 2
  /\ result.buffer[1] = Nul

\* C10: what a parser returns and stores does not depend on errno on entry:
\* started with any other errno, the same call returns and stores the same;
\* and after a call that left errno set, the rendering of a value of the
\* target type is still accepted and stored.
C10_ErrnoIndependent ==
  ParserDone =>
    /\ \A e \in Errnos : SameResult(Run(fn, args, args.str, e))
    /\ fn \in IntParsers /\ args.errno # "0" /\ args.str # NULL /\ args.base \in Bases =>
         \A v \in TypeVals(fn) :
           args.str[1] = RenderTab[args.base][v] => result.ret /\ result.val = v

\* spa_atou64 was called with errno still ERANGE and has stored UINT64_MAX.
C10_Witness ==
  /\ Done("spa_atou64")
  /\ args.errno = "ERANGE"
  /\ args.str = Some("18446744073709551615") /\ args.base = 10
  /\ result.ret
  /\ result.val = IntVal(FALSE, UInt64Max)
  /\ errno = "0"

====
